---- MODULE Spec2Model ----
(***************************************************************************)
(* The weekly contest deadline of the Home page (client/src/pages/home.tsx):*)
(* getNextFriday5pmPstUtcMs, formatCountdown and the 1-second countdown     *)
(* timer of the Home component.                                             *)
(*                                                                          *)
(* Instants are milliseconds, as in the source, counted from 00:00 UTC of   *)
(* the day epochDay (days since 1970-01-01) instead of from 1970: TLC's     *)
(* integers are 32 bits wide and a run only looks at a window of a few      *)
(* weeks.  Differences of instants, which is all the page displays, are the *)
(* same under both origins.                                                 *)
(***************************************************************************)
EXTENDS Integers, Sequences, FiniteSets, TLC

VARIABLES
    epochDay,          \* environment: the UTC day that instant 0 stands for
    hourCycle,         \* environment: what the engine resolves `hour12: false` to
    fault,             \* environment: the part a misbehaving Intl formatter spoils
    mounted,           \* Home: is an instance of the component mounted
    instance,          \* Home: id of the mounted instance (0: none yet)
    intervals,         \* host: ids of the active setInterval timers
    now,               \* Home: the `now` state (ms)
    contestEndUtcMs,   \* Home: the memoised deadline of the last render
    contestCountdown,  \* Home: the countdown text of the last render
    callNow,           \* calculator call: the argument
    callResult,        \* calculator call: its outcome
    callLog,           \* calculator calls: every argument with what came of it
    cdFrom,            \* countdown call: the instant whose countdown it is
    cdMs,              \* countdown call: the argument
    cdOut,             \* countdown call: the text returned
    location,          \* browser: the route shown
    toast,             \* browser: title of the last toast shown
    localStorage,      \* browser: the item calshi_session_token
    meQuery,           \* query cache: the data of the /me query
    stake,             \* Home: the `stake` state
    tradeMutation,     \* Home: status of the mounted instance's trade mutation
    trades,            \* the POST /trades requests in flight, in order
    settled,           \* what the last trade to end did at its end, in order
    lastTrade,         \* what the last call of handleTrade did
    authMounted,       \* AuthPage: is an instance of the page mounted
    authInstance,      \* AuthPage: id of the last instance mounted (0: none yet)
    idToken,           \* AuthPage: the `idToken` state
    username,          \* AuthPage: the `username` state
    isSubmitting,      \* AuthPage: the `isSubmitting` state
    needsUsername,     \* AuthPage: the `needsUsername` state
    authCalls,         \* the sign-in requests in flight, in order
    logouts,           \* the Home instances of the POST /auth/logout in flight
    portfolio          \* PortfolioPage: the trades fetched and what it derives

envVars  == <<epochDay, hourCycle, fault>>
homeVars == <<mounted, instance, intervals, now, contestEndUtcMs, contestCountdown>>
calcVars == <<callNow, callResult, callLog>>
fmtVars  == <<cdFrom, cdMs, cdOut>>
browserVars == <<location, toast, localStorage>>
tradeVars == <<meQuery, stake, tradeMutation, trades, settled, lastTrade>>
authVars == <<authMounted, authInstance, idToken, username, isSubmitting,
             needsUsername, authCalls>>
pageVars == <<browserVars, tradeVars, authVars, logouts, portfolio>>
vars     == <<envVars, homeVars, calcVars, fmtVars, pageVars>>

(***************************************************************************)
(* Bounds of the model.                                                     *)
(***************************************************************************)
\* days of the window from which `now` is drawn
MaxDays == 9
\* how far one timer tick can carry `now`, in hours
MaxJumpHours == 1
\* how many times the Home component is mounted in one run
MaxMounts == 2
\* days of the window through which the Home page is followed
MaxHomeDays == 2

(***************************************************************************)
(* Units (home.tsx:358 and :386 write them out as products).                *)
(***************************************************************************)
SecMs  == 1000
MinMs  == 60 * 1000
HourMs == 60 * 60 * 1000
DayMs  == 24 * 60 * 60 * 1000

\* Number(undefined) and every arithmetic result that depends on it; an
\* invalid Date has this time value.
NaN == -2000000000

Add(a, b) == IF a = NaN \/ b = NaN THEN NaN ELSE a + b
Sub(a, b) == IF a = NaN \/ b = NaN THEN NaN ELSE a - b
Mul(a, b) == IF a = NaN \/ b = NaN THEN NaN ELSE a * b
\* comparisons with NaN are false
Gt(a, b)  == a # NaN /\ b # NaN /\ a > b
Ge(a, b)  == a # NaN /\ b # NaN /\ a >= b

(***************************************************************************)
(* The proleptic Gregorian calendar, as Date.UTC and Intl use it.           *)
(***************************************************************************)
DaysFromCivil(y, m, d) ==
    LET yy  == IF m <= 2 THEN y - 1 ELSE y
        era == yy \div 400
        yoe == yy - era * 400
        mp  == IF m > 2 THEN m - 3 ELSE m + 9
        doy == (153 * mp + 2) \div 5 + d - 1
        doe == yoe * 365 + yoe \div 4 - yoe \div 100 + doy
    IN  era * 146097 + doe - 719468

CivilOfMonth(y, m, d) ==
    [year |-> IF m <= 2 THEN y + 1 ELSE y, month |-> m, day |-> d]

CivilOfMp(y, doy, mp) ==
    CivilOfMonth(y, IF mp < 10 THEN mp + 3 ELSE mp - 9, doy - (153 * mp + 2) \div 5 + 1)

CivilOfDoy(y, doy) == CivilOfMp(y, doy, (5 * doy + 2) \div 153)

CivilOfYoe(era, doe, yoe) ==
    CivilOfDoy(yoe + era * 400, doe - (365 * yoe + yoe \div 4 - yoe \div 100))

CivilOfDoe(era, doe) ==
    CivilOfYoe(era, doe, (doe - doe \div 1460 + doe \div 36524 - doe \div 146096) \div 365)

\* the civil date of day z (days since 1970-01-01)
CivilFromDays(z) == CivilOfDoe((z + 719468) \div 146097, (z + 719468) % 146097)

\* 0 = Sunday; 1970-01-01 was a Thursday
DayOfWeek(z) == (z + 4) % 7

(***************************************************************************)
(* The zone America/Los_Angeles under the rules in force since 2007:        *)
(* daylight time from the second Sunday of March, 02:00 standard time       *)
(* (10:00 UTC), to the first Sunday of November, 02:00 daylight time        *)
(* (09:00 UTC).  Instants are hours since 1970 here.                        *)
(***************************************************************************)
TzYears == 2026 .. 2028

FirstSundayOnOrAfter(z) == z + ((7 - DayOfWeek(z)) % 7)

UsPacificRules ==
    [y \in TzYears |->
        [dstStartHour |-> (FirstSundayOnOrAfter(DaysFromCivil(y, 3, 1)) + 7) * 24 + 10,
         dstEndHour   |-> FirstSundayOnOrAfter(DaysFromCivil(y, 11, 1)) * 24 + 9]]

\* hours since 1970 of the instant ms
AbsHour(ms) == epochDay * 24 + ms \div HourMs

\* the zone's offset from UTC at the instant ms, in minutes
TzOffsetMinutes(ms) ==
    IF \E y \in TzYears :
          /\ UsPacificRules[y].dstStartHour <= AbsHour(ms)
          /\ AbsHour(ms) < UsPacificRules[y].dstEndHour
    THEN -420 ELSE -480

WallClockFields(civil, dayNo, inDay) ==
    [year    |-> civil.year,
     month   |-> civil.month,
     day     |-> civil.day,
     weekday |-> DayOfWeek(dayNo),
     hour    |-> inDay \div HourMs,
     minute  |-> (inDay % HourMs) \div MinMs,
     second  |-> (inDay % MinMs) \div SecMs,
     millis  |-> inDay % SecMs]

WallClockOfLocal(local) ==
    WallClockFields(CivilFromDays(epochDay + local \div DayMs),
                    epochDay + local \div DayMs, local % DayMs)

\* the wall-clock fields of the instant ms in the zone
WallClock(ms) == WallClockOfLocal(ms + TzOffsetMinutes(ms) * MinMs)

(***************************************************************************)
(* Text.  A formatted part is a sequence of characters, so that reading it  *)
(* back with Number() is a parse and not the identity.                      *)
(***************************************************************************)
Digits == <<"0", "1", "2", "3", "4", "5", "6", "7", "8", "9">>

\* n in decimal, padded with zeros to at least w characters ("2-digit": w = 2)
RECURSIVE ToDigits(_, _)
ToDigits(n, w) ==
    IF n < 10 /\ w <= 1
    THEN <<Digits[n + 1]>>
    ELSE Append(ToDigits(n \div 10, w - 1), Digits[(n % 10) + 1])

IsDigit(c) == \E i \in 1 .. 10 : Digits[i] = c
DigitValue(c) == (CHOOSE i \in 1 .. 10 : Digits[i] = c) - 1

RECURSIVE ParseDigits(_)
ParseDigits(s) ==
    IF s = <<>> THEN 0
    ELSE ParseDigits(SubSeq(s, 1, Len(s) - 1)) * 10 + DigitValue(s[Len(s)])

\* the value of `parts.find(...)?.value` when no part has the type
Undefined == <<"undefined">>

\* Number(v)
Number(v) ==
    IF v = Undefined THEN NaN
    ELSE IF \A i \in 1 .. Len(v) : IsDigit(v[i]) THEN ParseDigits(v)
    ELSE NaN

\* String(v)
String(v) ==
    IF v = Undefined THEN <<"u", "n", "d", "e", "f", "i", "n", "e", "d">> ELSE v

\* weekday: "short" in en-US, indexed by day of week + 1
WeekdayShort ==
    << <<"S", "u", "n">>, <<"M", "o", "n">>, <<"T", "u", "e">>, <<"W", "e", "d">>,
       <<"T", "h", "u">>, <<"F", "r", "i">>, <<"S", "a", "t">> >>

(***************************************************************************)
(* Intl.DateTimeFormat("en-US", {timeZone: tz, ..., hour12: false}).        *)
(* `hour12: false` selects a 24-hour cycle and the engine decides which:    *)
(* "h23" prints midnight as 00; "h24", which ECMA-402 before its 2024       *)
(* edition prescribes for a locale whose default cycle is h12 (en-US) and   *)
(* V8 implements, prints it as 24.                                          *)
(***************************************************************************)
HourCycles == {"h23", "h24"}

HourOfCycle(h) == IF hourCycle = "h24" /\ h = 0 THEN 24 ELSE h

\* A formatter that misbehaves spoils one part of one of the three calls:
\* the part is missing from the list, or its value is not what was asked for.
NoFault == [call |-> 0, type |-> "none", how |-> "none"]

Faults ==
    [call : {1}, type : {"year", "month", "day", "weekday", "hour", "minute"},
     how : {"missing", "garbled"}]
    \cup [call : {2}, type : {"year", "month", "day"}, how : {"missing", "garbled"}]
    \cup [call : {3}, type : {"hour", "minute"}, how : {"missing", "garbled"}]

Garbled == <<"?">>

\* the text of each part of the wall clock w
PartTexts(w) ==
    [year    |-> ToDigits(w.year, 1),
     month   |-> ToDigits(w.month, 2),
     day     |-> ToDigits(w.day, 2),
     weekday |-> WeekdayShort[w.weekday + 1],
     hour    |-> ToDigits(HourOfCycle(w.hour), 2),
     minute  |-> ToDigits(w.minute, 2),
     second  |-> ToDigits(w.second, 2)]

PartsOf(call, types, text) ==
    [t \in {u \in types : ~(fault.call = call /\ fault.type = u /\ fault.how = "missing")} |->
        IF fault.call = call /\ fault.type = t THEN Garbled ELSE text[t]]

\* formatToParts of the valid instant ms, as the function type -> value of the
\* parts asked for; `call` is 1, 2, 3 for home.tsx:328, :360, :374
formatToParts(call, types, ms) == PartsOf(call, types, PartTexts(WallClock(ms)))

\* parts.find((p) => p.type === type)?.value
get(parts, type) == IF type \in DOMAIN parts THEN parts[type] ELSE Undefined

\* Date.UTC(y, monthIndex, d, h, mi, s)
DateUTC(y, monthIndex, d, h, mi, s) ==
    IF y = NaN \/ monthIndex = NaN \/ d = NaN THEN NaN
    ELSE (DaysFromCivil(y, monthIndex + 1, d) - epochDay) * DayMs
         + h * HourMs + mi * MinMs + s * SecMs

(***************************************************************************)
(* getNextFriday5pmPstUtcMs (home.tsx:325-388).  A call either returns a    *)
(* number (NaN included) or throws: formatToParts throws a RangeError when  *)
(* it is given an invalid Date.                                             *)
(***************************************************************************)
Return(v) == [threw |-> FALSE, value |-> v]
RangeError == [threw |-> TRUE, value |-> NaN]

wdMap == [w \in {WeekdayShort[i] : i \in 1 .. 7} |->
            (CHOOSE i \in 1 .. 7 : WeekdayShort[i] = w) - 1]

\* home.tsx:350
pstDowOf(weekday) == IF weekday \in DOMAIN wdMap THEN wdMap[weekday] ELSE 0

\* daysUntilFriOf without the roll to the following week (home.tsx:353-355 left out)
daysUntilFriOf_NoRoll(pstDow, hour, minute) == (5 - pstDow + 7) % 7

\* daysUntilFriOf rolling only from 18:00 on (`hour > 17` alone in home.tsx:353)
daysUntilFriOf_After5pm(pstDow, hour, minute) ==
    IF pstDow = 5 /\ Gt(hour, 17) THEN 7 ELSE (5 - pstDow + 7) % 7

\* home.tsx:352-355
daysUntilFriOf(pstDow, hour, minute) ==
    IF pstDow = 5 /\ (Gt(hour, 17) \/ (hour = 17 /\ Ge(minute, 0)))
    THEN 7
    ELSE (5 - pstDow + 7) % 7

\* clockInstant reading the clock of today's date instead of the target date's
clockInstant_Today(nowMs, approxUtc) ==
    DateUTC(WallClock(nowMs).year, WallClock(nowMs).month - 1, WallClock(nowMs).day,
            17, 0, 0)

\* home.tsx:380: the instant whose wall clock tells the zone's offset
clockInstant(nowMs, approxUtc) == approxUtc

\* home.tsx:385: diffMinutes
diffMinutesOf(pstH, pstM) == Add(Mul(Sub(17, pstH), 60), Sub(0, pstM))

\* correctedUtcOf without the correction of home.tsx:385-386
correctedUtcOf_Uncorrected(approxUtc, clockParts) == Return(approxUtc)

\* home.tsx:382-387
correctedUtcOf(approxUtc, clockParts) ==
    Return(Add(approxUtc,
               Mul(diffMinutesOf(Number(get(clockParts, "hour")),
                                 Number(get(clockParts, "minute"))),
                   60 * 1000)))

\* home.tsx:374-380: formatToParts throws on an invalid Date
fromApproxUtc(nowMs, approxUtc) ==
    IF approxUtc = NaN THEN RangeError
    ELSE correctedUtcOf(approxUtc,
                        formatToParts(3, {"hour", "minute", "second"},
                                      clockInstant(nowMs, approxUtc)))

\* home.tsx:368-372
fromTargetParts(nowMs, targetParts) ==
    fromApproxUtc(nowMs,
                  DateUTC(Number(get(targetParts, "year")),
                          Sub(Number(get(targetParts, "month")), 1),
                          Number(get(targetParts, "day")), 17, 0, 0))

\* home.tsx:360-366: formatToParts throws on an invalid Date
fromTargetPstMidday(nowMs, targetPstMidday) ==
    IF targetPstMidday = NaN THEN RangeError
    ELSE fromTargetParts(nowMs,
                         formatToParts(2, {"year", "month", "day"}, targetPstMidday))

\* home.tsx:349-358
fromFields(nowMs, year, month, day, weekday, hour, minute) ==
    fromTargetPstMidday(nowMs,
        Add(DateUTC(year, Sub(month, 1), day, 12, 0, 0),
            daysUntilFriOf(pstDowOf(weekday), hour, minute) * 24 * 60 * 60 * 1000))

\* home.tsx:340-347
fromParts(nowMs, parts) ==
    fromFields(nowMs,
               Number(get(parts, "year")), Number(get(parts, "month")),
               Number(get(parts, "day")), String(get(parts, "weekday")),
               Number(get(parts, "hour")), Number(get(parts, "minute")))

\* a calculator that reads an invalid date as the start of the window
getNextFriday5pmPstUtcMs_Clamped(nowMs) ==
    fromParts(IF nowMs = NaN THEN 0 ELSE nowMs,
              formatToParts(1, {"year", "month", "day", "weekday",
                                "hour", "minute", "second"},
                            IF nowMs = NaN THEN 0 ELSE nowMs))

\* a calculator that reads the page's clock instead of its argument
getNextFriday5pmPstUtcMs_Ambient(nowMs) ==
    fromParts(now,
              formatToParts(1, {"year", "month", "day", "weekday",
                                "hour", "minute", "second"}, now))

\* home.tsx:325-388; formatToParts throws a RangeError on an invalid date
getNextFriday5pmPstUtcMs(nowMs) ==
    IF nowMs = NaN THEN RangeError
    ELSE fromParts(nowMs,
                   formatToParts(1, {"year", "month", "day", "weekday",
                                     "hour", "minute", "second"}, nowMs))

(***************************************************************************)
(* formatCountdown (home.tsx:390-400).  The text is a sequence of           *)
(* characters.                                                              *)
(***************************************************************************)
\* n.toString()
NumberToString(n) == IF n < 0 THEN <<"-">> \o ToDigits(-n, 1) ELSE ToDigits(n, 1)

\* the % of JavaScript: the remainder has the sign of the dividend
Rem(a, b) == IF a >= 0 THEN a % b ELSE -((-a) % b)

\* pad without the padding (`n.toString()` alone in home.tsx:397)
pad_NoPad(n) == NumberToString(n)

\* home.tsx:397: n.toString().padStart(2, "0")
pad(n) ==
    IF Len(NumberToString(n)) < 2 THEN <<"0">> \o NumberToString(n) ELSE NumberToString(n)

\* totalOf without the clamp (`Math.floor(ms / 1000)` alone in home.tsx:391)
totalOf_NoClamp(ms) == ms \div 1000

\* home.tsx:391: Math.max(0, Math.floor(ms / 1000))
totalOf(ms) == IF ms \div 1000 > 0 THEN ms \div 1000 ELSE 0

NaNText == <<"N", "a", "N", "h", " ", "N", "a", "N", "m", " ", "N", "a", "N", "s">>

\* home.tsx:398-399
countdownText(dd, hh, mm, ss) ==
    (IF dd > 0 THEN NumberToString(dd) \o <<"d", " ">> ELSE <<>>)
    \o pad(hh) \o <<"h", " ">> \o pad(mm) \o <<"m", " ">> \o pad(ss) \o <<"s">>

\* home.tsx:392-395
countdownOfTotal(total) ==
    countdownText(total \div 86400, Rem(total, 86400) \div 3600,
                  Rem(total, 3600) \div 60, Rem(total, 60))

formatCountdown(ms) ==
    IF ms = NaN THEN NaNText ELSE countdownOfTotal(totalOf(ms))

(***************************************************************************)
(* The inputs of a run.                                                     *)
(***************************************************************************)
\* Sundays, 00:00 UTC: 2026-03-01 (daylight time starts on 03-08),
\* 2026-10-25 (it ends on 11-01) and 2026-12-27 (the deadline is 2027-01-01)
EpochDays == {20513, 20751, 20814}

\* within an hour: its first instants, and its last second
SampleOffsets == {0, 1, 1000, 59 * MinMs + 59 * SecMs, 59 * MinMs + 59 * SecMs + 999}

\* every hour of the window, at each of the offsets
SampleInstants ==
    {d * DayMs + h * HourMs + o : d \in 0 .. MaxDays - 1, h \in 0 .. 23, o \in SampleOffsets}

\* the instants the Home page is followed through: from Friday 00:00 UTC of
\* the window, which is Thursday afternoon in the zone
HomeInstants ==
    {u \in SampleInstants : 5 * DayMs <= u /\ u < (5 + MaxHomeDays) * DayMs}

\* what a tick or a remount can read from the clock after `t`
Later(t) == {u \in HomeInstants : t < u /\ u <= t + MaxJumpHours * HourMs}

(***************************************************************************)
(* The state of the pages, before anything happened on them.                *)
(***************************************************************************)
\* JavaScript's null, where a string is expected
Null == "null"

\* no toast was shown yet
NoToast == "none"

\* useMutation before mutate was called (home.tsx:501)
Idle == "idle"

\* a `credits` that is null or not there
Missing == NaN - 1

\* the /me query without data: not fetched yet, or a 401 (home.tsx:431-438)
NoUser == [user |-> FALSE, credits |-> Missing]

NoBrowser == location = "/" /\ toast = NoToast /\ localStorage = Null

\* no trade has ended yet
NotSettled == <<>>

\* handleTrade was not called yet
NoTradeCall == "nothing"

\* home.tsx:402, 501
NoTrade ==
    /\ meQuery = NoUser
    /\ stake = 50
    /\ tradeMutation = Idle
    /\ trades = <<>>
    /\ settled = NotSettled
    /\ lastTrade = NoTradeCall

\* auth.tsx:22-28
NoAuth ==
    /\ authMounted = FALSE
    /\ authInstance = 0
    /\ idToken = Null
    /\ username = <<>>
    /\ isSubmitting = FALSE
    /\ needsUsername = FALSE
    /\ authCalls = <<>>

\* portfolio.tsx:261, 273-300: the page before /trades has answered
NoPortfolio == [trades |-> <<>>, activeStake |-> 0, positions |-> <<>>]

NoPage == NoBrowser /\ NoTrade /\ NoAuth /\ logouts = <<>> /\ portfolio = NoPortfolio

(***************************************************************************)
(* The stake of a trade (home.tsx:250-253, 438-445, 534-549).  A balance is *)
(* a number of half tokens, so that a fractional balance can be told from a *)
(* whole one; a stake and an amount are whole tokens; NaN is NaN.           *)
(***************************************************************************)
\* one token, in the unit of balances
Unit == 2

IsFinite(x) == x # NaN

\* Math.floor of a balance, in whole tokens
MathFloor(t) == IF t = NaN THEN NaN ELSE t \div Unit

MathMax(a, b) == IF a = NaN \/ b = NaN THEN NaN ELSE IF a >= b THEN a ELSE b

MathMin(a, b) == IF a = NaN \/ b = NaN THEN NaN ELSE IF a <= b THEN a ELSE b

\* home.tsx:250-253; n is a whole number or NaN, which Math.floor leaves alone
clampInt(n, min, max) ==
    IF ~IsFinite(n) THEN min ELSE MathMax(min, MathMin(max, n))

\* home.tsx:438
signedInOf(data) == data.user

\* home.tsx:439: Number(credits ?? 0), a NaN `credits` standing for whatever
\* Number() makes NaN of
tokensOf(data) ==
    IF ~data.user \/ data.credits = Missing THEN 0 ELSE data.credits

\* home.tsx:534-539
maxStakeForSliderOf(data) ==
    IF ~signedInOf(data) THEN 500
    ELSE IF ~IsFinite(MathFloor(tokensOf(data))) \/ MathFloor(tokensOf(data)) <= 0
         THEN 500
         ELSE MathMax(10, MathFloor(tokensOf(data)))

\* home.tsx:740, 748, 820, 828: the stake the slider and the buttons display
shownStake(n, data) == clampInt(n, 1, maxStakeForSliderOf(data))

\* home.tsx:441-445: the effect that runs when signedIn or tokens changed
stakeEffect(prev, data) ==
    IF ~signedInOf(data) THEN prev
    ELSE clampInt(prev, 1, MathMax(1, MathFloor(tokensOf(data))))

\* home.tsx:547-548
amountOf(n, data) ==
    clampInt(n, 1, MathMax(1, MathMax(0, MathFloor(tokensOf(data)))))

\* home.tsx:550: amount > tokens
notEnough(amount, data) ==
    amount # NaN /\ tokensOf(data) # NaN /\ amount * Unit > tokensOf(data)

(***************************************************************************)
(* The Home component (home.tsx:402-429): `now`, the interval that updates  *)
(* it, and what a render derives from it.                                   *)
(***************************************************************************)
\* a render whose deadline is memoised once, at the mount
Rendered_Memoised(t, r) ==
    /\ now' = t
    /\ contestCountdown' = formatCountdown(Sub(contestEndUtcMs, t))
    /\ UNCHANGED <<mounted, intervals, contestEndUtcMs>>

\* home.tsx:416-417: the render with `now` = t, given what the calculator did
Rendered(t, r) ==
    IF r.threw
    THEN \* the render throws: React unmounts the tree and runs the cleanups
         /\ mounted' = FALSE
         /\ intervals' = intervals \ {instance'}
         /\ UNCHANGED <<now, contestEndUtcMs, contestCountdown>>
    ELSE /\ now' = t
         /\ contestEndUtcMs' = r.value
         /\ contestCountdown' = formatCountdown(Sub(r.value, t))
         /\ UNCHANGED <<mounted, intervals>>

Render(t) == Rendered(t, getNextFriday5pmPstUtcMs(t))

\* home.tsx:410-414: the first render reads the clock, then the effect
\* starts the interval
Mounted(t, r) ==
    IF r.threw
    THEN UNCHANGED <<mounted, intervals, now, contestEndUtcMs, contestCountdown>>
    ELSE /\ mounted' = TRUE
         /\ intervals' = intervals \cup {instance + 1}
         /\ now' = t
         /\ contestEndUtcMs' = r.value
         /\ contestCountdown' = formatCountdown(Sub(r.value, t))

Mount(t) ==
    /\ ~mounted
    /\ location = "/"
    /\ instance < MaxMounts
    /\ instance' = instance + 1
    /\ Mounted(t, getNextFriday5pmPstUtcMs(t))
    /\ stake' = stakeEffect(50, meQuery)
    /\ tradeMutation' = Idle
    /\ UNCHANGED <<meQuery, trades, settled, lastTrade>>
    /\ UNCHANGED <<logouts, portfolio>>
    /\ UNCHANGED <<envVars, calcVars, fmtVars, browserVars, authVars>>

\* home.tsx:412: the callback of interval id runs; setNow on an instance that
\* is no longer mounted does nothing
Tick(id, t) ==
    /\ id \in intervals
    /\ IF mounted /\ id = instance
       THEN /\ instance' = instance
            /\ Render(t)
       ELSE UNCHANGED homeVars
    /\ UNCHANGED <<envVars, calcVars, fmtVars, pageVars>>

\* an effect whose cleanup does not clear the interval
clearInterval_Leak(id) == intervals

\* home.tsx:413: the cleanup of the effect
clearInterval(id) == intervals \ {id}

Unmount ==
    /\ mounted
    /\ mounted' = FALSE
    /\ intervals' = clearInterval(instance)
    /\ UNCHANGED <<instance, now, contestEndUtcMs, contestCountdown>>
    /\ UNCHANGED <<envVars, calcVars, fmtVars, pageVars>>

(***************************************************************************)
(* Trading on the Home page (home.tsx:431-445, 501-566, 740-832).           *)
(***************************************************************************)
\* what /me can answer: no user (401), or a user whose credits are not a
\* number, or a balance of half a token, of 5 or of 60 tokens
MeResponses ==
    {NoUser} \cup
    {[user |-> TRUE, credits |-> c] : c \in {NaN, 1, 5 * Unit, 60 * Unit}}

\* where the range input can be dragged to
SliderStops(max) == {v \in {1, 7, max} : 1 <= v /\ v <= max}

\* home.tsx:441-445: the effect runs after a render in which signedIn or
\* tokens differ from those of the render before
stakeAfter(data) ==
    IF mounted /\ (signedInOf(data) # signedInOf(meQuery) \/ tokensOf(data) # tokensOf(meQuery))
    THEN stakeEffect(stake, data)
    ELSE stake

\* home.tsx:431-436: the /me query resolves (on mount, on focus, after an
\* invalidation) and the page renders with its data
MeFetched(data) ==
    /\ meQuery' = data
    /\ stake' = stakeAfter(data)
    /\ UNCHANGED <<tradeMutation, trades, settled, lastTrade>>
    /\ UNCHANGED <<logouts, portfolio>>
    /\ UNCHANGED <<envVars, homeVars, calcVars, fmtVars, browserVars, authVars>>

\* home.tsx:743-752: the range input, disabled when signed out
SlideStake(v) ==
    /\ mounted /\ location = "/"
    /\ signedInOf(meQuery) /\ maxStakeForSliderOf(meQuery) > 1
    /\ v \in SliderStops(maxStakeForSliderOf(meQuery))
    /\ stake' = v
    /\ UNCHANGED <<meQuery, tradeMutation, trades, settled, lastTrade>>
    /\ UNCHANGED <<logouts, portfolio>>
    /\ UNCHANGED <<envVars, homeVars, calcVars, fmtVars, browserVars, authVars>>

\* home.tsx:760-768: the buttons 10, 50 and Max, disabled when signed out
StakeButtons == {"10", "50", "Max"}

StakeButton(b) ==
    /\ mounted /\ location = "/"
    /\ signedInOf(meQuery)
    /\ stake' = CASE b = "10" -> 10
                  [] b = "50" -> 50
                  [] b = "Max" -> maxStakeForSliderOf(meQuery)
    /\ UNCHANGED <<meQuery, tradeMutation, trades, settled, lastTrade>>
    /\ UNCHANGED <<logouts, portfolio>>
    /\ UNCHANGED <<envVars, homeVars, calcVars, fmtVars, browserVars, authVars>>

\* the route changes and Home is torn down
LeaveHome(to) ==
    /\ location' = to
    /\ mounted' = FALSE
    /\ intervals' = clearInterval(instance)
    /\ UNCHANGED <<instance, now, contestEndUtcMs, contestCountdown>>

\* home.tsx:585, 594, 612: the header's buttons
GoTo(to) ==
    /\ mounted /\ location = "/"
    /\ to = (IF signedInOf(meQuery) THEN "/portfolio" ELSE "/auth")
    /\ LeaveHome(to)
    /\ UNCHANGED <<toast, localStorage>>
    /\ UNCHANGED <<logouts, portfolio>>
    /\ UNCHANGED <<envVars, calcVars, fmtVars, tradeVars, authVars>>

\* portfolio.tsx:71, 318: the link back to "/"; Home is mounted by the next
\* Mount
BackHome ==
    /\ location = "/portfolio"
    /\ location' = "/"
    /\ portfolio' = NoPortfolio
    /\ UNCHANGED <<toast, localStorage, logouts>>
    /\ UNCHANGED <<envVars, homeVars, calcVars, fmtVars, tradeVars, authVars>>

\* a POST /trades request: the instance that made it and the amount in its
\* body
Request(amount) == [instance |-> instance, amount |-> amount]

\* a handleTrade that does not look at signedIn
handleTradeOf_NoGuard(amount) ==
    /\ lastTrade' = "sent"
    /\ trades' = Append(trades, Request(amount))
    /\ tradeMutation' = "pending"
    /\ UNCHANGED <<homeVars, browserVars>>

\* home.tsx:541-566, up to the await of mutateAsync
handleTradeOf(amount) ==
    IF ~signedInOf(meQuery)
    THEN /\ LeaveHome("/auth")
         /\ lastTrade' = "auth"
         /\ UNCHANGED <<toast, localStorage, tradeMutation, trades>>
    ELSE IF notEnough(amount, meQuery)
    THEN /\ toast' = "Not enough tokens"
         /\ lastTrade' = "refused"
         /\ UNCHANGED <<homeVars, location, localStorage, tradeMutation, trades>>
    ELSE \* tradeMutation.mutateAsync: apiRequest("POST", "/trades", input)
         /\ lastTrade' = "sent"
         /\ trades' = Append(trades, Request(amount))
         /\ tradeMutation' = "pending"
         /\ UNCHANGED <<homeVars, browserVars>>

\* home.tsx:822, 830: disabled={tradeMutation.isPending}
tradeDisabled == tradeMutation = "pending"

\* home.tsx:817-832: a click on the YES or the NO button of a market
HandleTrade(side) ==
    /\ mounted /\ location = "/"
    /\ ~tradeDisabled
    /\ handleTradeOf(amountOf(stake, meQuery))
    /\ UNCHANGED <<meQuery, stake, settled>>
    /\ UNCHANGED <<logouts, portfolio>>
    /\ UNCHANGED <<envVars, calcVars, fmtVars, authVars>>

\* how POST /trades can end: a 2xx answer with a JSON body; a 2xx answer
\* whose body res.json() rejects; another status, which throwIfResNotOk
\* throws on (queryClient.ts:10-15); no answer, fetch rejecting
Responses == {"ok", "badBody", "notOk", "rejected"}

\* the status of the observer of request i changes only while the instance
\* that made the request is mounted
observed(i, status) ==
    IF mounted /\ trades[i].instance = instance THEN status ELSE tradeMutation

\* the requests in flight without the i-th
Without(i) == SubSeq(trades, 1, i - 1) \o SubSeq(trades, i + 1, Len(trades))

\* the keys of onSuccess, in the reverse order
onSuccessKeys_Reversed == <<"/leaderboard", "/stats", "/markets", "/me">>

\* home.tsx:507-510: the awaited invalidateQueries of onSuccess, in order
onSuccessKeys == <<"/me", "/markets", "/stats", "/leaderboard">>

\* home.tsx:501-512, 559-565: what the end of a request does, in order.  The
\* mutation function returns, onSuccess invalidates, mutateAsync resolves
\* and handleTrade toasts; or the mutation function throws, mutateAsync
\* rejects and the catch toasts
mutationOf(res) ==
    IF res = "ok"
    THEN onSuccessKeys \o <<"Trade placed">>
    ELSE <<"Trade failed">>

\* the request i ends, and with it the mutation and the handleTrade that
\* awaits it
TradeResponse(i, res) ==
    /\ settled' = mutationOf(res)
    /\ toast' = settled'[Len(settled')]
    /\ tradeMutation' = observed(i, IF res = "ok" THEN "success" ELSE "error")
    /\ trades' = Without(i)
    /\ UNCHANGED <<location, localStorage, meQuery, stake, lastTrade>>
    /\ UNCHANGED <<logouts, portfolio>>
    /\ UNCHANGED <<envVars, homeVars, calcVars, fmtVars, authVars>>

(***************************************************************************)
(* Logging out (home.tsx) and the holdings of the portfolio page           *)
(* (portfolio.tsx).                                                         *)
(***************************************************************************)
\* home.tsx:600-608: the Logout button, rendered when signed in and
\* disabled while the logout mutation of this instance is pending
HandleLogout ==
    /\ mounted /\ location = "/"
    /\ signedInOf(meQuery)
    /\ \A k \in 1 .. Len(logouts) : logouts[k] # instance
    /\ logouts' = Append(logouts, instance)
    /\ UNCHANGED <<browserVars, tradeVars, authVars, portfolio>>
    /\ UNCHANGED <<envVars, homeVars, calcVars, fmtVars>>

\* a logout that keeps the session when the request fails
LogoutResponse_GiveUp(i, res, data) ==
    /\ i \in 1 .. Len(logouts)
    /\ logouts' = SubSeq(logouts, 1, i - 1) \o SubSeq(logouts, i + 1, Len(logouts))
    /\ IF res \in {"ok", "badBody"}
       THEN /\ localStorage' = Null
            /\ meQuery' = data
            /\ stake' = stakeAfter(data)
            /\ settled' = <<"removeItem", "/me", "Logged out", "/auth">>
            /\ toast' = "Logged out"
            /\ LeaveHome("/auth")
            /\ portfolio' = NoPortfolio
       ELSE /\ settled' = <<>>
            /\ UNCHANGED <<browserVars, homeVars, meQuery, stake, portfolio>>
    /\ UNCHANGED <<tradeMutation, trades, lastTrade>>
    /\ UNCHANGED <<envVars, calcVars, fmtVars, authVars>>

\* home.tsx:514-525: the i-th POST /auth/logout in flight ends, whatever its
\* answer (the catch swallows a rejection and a status that is not 2xx):
\* removeItem, then onSuccess with the awaited refetch of /me, the toast and
\* setLocation("/auth"), which unmounts the page shown
LogoutResponse(i, res, data) ==
    /\ i \in 1 .. Len(logouts)
    /\ logouts' = SubSeq(logouts, 1, i - 1) \o SubSeq(logouts, i + 1, Len(logouts))
    /\ localStorage' = Null
    /\ meQuery' = data
    /\ stake' = stakeAfter(data)
    /\ settled' = (IF res \in {"ok", "badBody"} THEN <<>> ELSE <<"catch">>)
                    \o <<"removeItem", "/me", "Logged out", "/auth">>
    /\ toast' = "Logged out"
    /\ LeaveHome("/auth")
    /\ portfolio' = NoPortfolio
    /\ UNCHANGED <<tradeMutation, trades, lastTrade>>
    /\ UNCHANGED <<envVars, calcVars, fmtVars, authVars>>

\* the longest list of trades the /trades query answers with
MaxTrades == 3

\* portfolio.tsx:273-275: trades.reduce((acc, t) => acc + Number(t.amount ?? 0), 0)
RECURSIVE activeStakeOf(_)
activeStakeOf(list) ==
    IF list = <<>>
    THEN 0
    ELSE activeStakeOf(SubSeq(list, 1, Len(list) - 1)) + list[Len(list)].amount

\* positions keyed by the market alone
RECURSIVE aggregate_ByMarket(_)
aggregate_ByMarket(list) ==
    IF list = <<>>
    THEN <<>>
    ELSE LET agg == aggregate_ByMarket(SubSeq(list, 1, Len(list) - 1))
             t == list[Len(list)]
             at == {i \in 1 .. Len(agg) : agg[i].id = t.market_id}
         IN  IF at # {}
             THEN [i \in 1 .. Len(agg) |->
                     IF i \in at THEN [agg[i] EXCEPT !.amount = @ + t.amount] ELSE agg[i]]
             ELSE Append(agg, [id |-> t.market_id, marketTitle |-> t.market_id,
                               side |-> t.side, amount |-> t.amount])

\* portfolio.tsx:279-296: the values of the Map agg after the loop, in the
\* order of insertion; no market has a title yet, so marketTitle is the id
RECURSIVE aggregate(_)
aggregate(list) ==
    IF list = <<>>
    THEN <<>>
    ELSE LET agg == aggregate(SubSeq(list, 1, Len(list) - 1))
             t == list[Len(list)]
             at == {i \in 1 .. Len(agg) : agg[i].id = t.market_id \o <<":", t.side>>}
         IN  IF at # {}
             THEN [i \in 1 .. Len(agg) |->
                     IF i \in at THEN [agg[i] EXCEPT !.amount = @ + t.amount] ELSE agg[i]]
             ELSE Append(agg, [id |-> t.market_id \o <<":", t.side>>,
                               marketTitle |-> t.market_id,
                               side |-> t.side, amount |-> t.amount])

\* portfolio.tsx:299: sort((a, b) => b.amount - a.amount), which is stable:
\* the first of the largest, then the rest sorted
RECURSIVE sortOf(_)
sortOf(list) ==
    IF list = <<>>
    THEN <<>>
    ELSE LET first == CHOOSE i \in 1 .. Len(list) :
                          /\ \A j \in 1 .. Len(list) : list[j].amount <= list[i].amount
                          /\ \A j \in 1 .. i - 1 : list[j].amount < list[i].amount
         IN  <<list[first]>>
             \o sortOf(SubSeq(list, 1, first - 1) \o SubSeq(list, first + 1, Len(list)))

\* portfolio.tsx:250-253, 261, 273-300: the /trades query answers and the
\* page renders with its trades; the query is not refetched on focus or on
\* an interval (queryClient.ts:50-58), so it answers once while the page is
\* shown
TradesFetched(list) ==
    /\ location = "/portfolio"
    /\ portfolio = NoPortfolio
    /\ portfolio' = [trades |-> list,
                     activeStake |-> activeStakeOf(list),
                     positions |-> sortOf(aggregate(list))]
    /\ UNCHANGED <<browserVars, tradeVars, authVars, logouts>>
    /\ UNCHANGED <<envVars, homeVars, calcVars, fmtVars>>

(***************************************************************************)
(* The sign-in page (auth.tsx).  A text is a sequence of characters.        *)
(***************************************************************************)
\* String.prototype.trim, the only white space of the model being " "
RECURSIVE TrimStart(_)
TrimStart(text) ==
    IF text # <<>> /\ Head(text) = " " THEN TrimStart(Tail(text)) ELSE text

RECURSIVE TrimEnd(_)
TrimEnd(text) ==
    IF text # <<>> /\ text[Len(text)] = " "
    THEN TrimEnd(SubSeq(text, 1, Len(text) - 1))
    ELSE text

trim(text) == TrimEnd(TrimStart(text))

\* auth.tsx:60: (data?.user?.username ?? "").toString().trim()
serverUsernameOf(name) == IF name = Undefined THEN <<>> ELSE trim(name)

\* the requests of the sign-in page followed at a time
MaxAuthCalls == 2

\* what Google hands to onSuccess: a credential, or none
Credentials == {"", "g1", "g2"}

\* what the field can hold after a change
Typed ==
    {<<>>, <<" ", "a", "b", " ">>, <<"a", "b", "c">>, <<" ", "a", "b", "c">>}

\* how a request of the page can end: fetch rejects; a status that is not
\* 2xx; a 2xx answer whose body is not JSON (data stays null); a 2xx answer
\* with a user that has no username, a blank one or one, and with or
\* without a sessionToken
NoAnswer == [fate |-> "rejected", username |-> Undefined, sessionToken |-> Null]

Answers ==
    {NoAnswer,
     [fate |-> "notOk", username |-> Undefined, sessionToken |-> Null],
     [fate |-> "badBody", username |-> Undefined, sessionToken |-> Null]}
    \cup [fate : {"ok"},
          username : {Undefined, <<" ">>, <<"b", "o", "b">>},
          sessionToken : {Null, "s1"}]

\* the data the handler reads from the answer: null unless the body parsed
dataOf(res) ==
    IF res.fate = "ok" THEN res ELSE [res EXCEPT !.username = Undefined, !.sessionToken = Null]

\* the router shows /auth: a new instance of AuthPage (auth.tsx:19-28)
MountAuth ==
    /\ location = "/auth"
    /\ ~authMounted
    /\ authInstance < MaxMounts
    /\ authMounted' = TRUE
    /\ authInstance' = authInstance + 1
    /\ idToken' = Null
    /\ username' = <<>>
    /\ isSubmitting' = FALSE
    /\ needsUsername' = FALSE
    /\ UNCHANGED authCalls
    /\ UNCHANGED <<logouts, portfolio>>
    /\ UNCHANGED <<envVars, homeVars, calcVars, fmtVars, browserVars, tradeVars>>

\* a request of the page: the instance that made it, its path and its body
AuthCall(path, token, name) ==
    [instance |-> authInstance, path |-> path, idToken |-> token, username |-> name]

\* auth.tsx:38-47: handleGoogleToken, up to the await of fetch
handleGoogleToken(token) ==
    /\ isSubmitting' = TRUE
    /\ authCalls' = Append(authCalls, AuthCall("/auth/google", token, <<>>))
    /\ UNCHANGED <<authMounted, authInstance, idToken, username, needsUsername>>
    /\ UNCHANGED browserVars

\* auth.tsx:162-176: onSuccess of GoogleLogin, shown while !needsUsername
GoogleSuccess(token) ==
    /\ authMounted
    /\ ~needsUsername
    /\ Len(authCalls) < MaxAuthCalls
    /\ IF token = ""
       THEN /\ toast' = "Google sign-in failed"
            /\ UNCHANGED <<location, localStorage, authVars>>
       ELSE handleGoogleToken(token)
    /\ UNCHANGED <<logouts, portfolio>>
    /\ UNCHANGED <<envVars, homeVars, calcVars, fmtVars, tradeVars>>

\* auth.tsx:177-183: onError of GoogleLogin
GoogleError ==
    /\ authMounted
    /\ ~needsUsername
    /\ toast' = "Google sign-in failed"
    /\ UNCHANGED <<location, localStorage, authVars>>
    /\ UNCHANGED <<logouts, portfolio>>
    /\ UNCHANGED <<envVars, homeVars, calcVars, fmtVars, tradeVars>>

\* auth.tsx:208: the username field, disabled while submitting
SetUsername(text) ==
    /\ authMounted
    /\ needsUsername
    /\ ~isSubmitting
    /\ username' = text
    /\ UNCHANGED <<authMounted, authInstance, idToken, isSubmitting, needsUsername, authCalls>>
    /\ UNCHANGED <<logouts, portfolio>>
    /\ UNCHANGED <<envVars, homeVars, calcVars, fmtVars, browserVars, tradeVars>>

\* the calls in flight without the i-th
WithoutCall(i) ==
    SubSeq(authCalls, 1, i - 1) \o SubSeq(authCalls, i + 1, Len(authCalls))

\* a state setter of the instance that made call i: it does nothing once
\* that instance is unmounted
setState(i, value, old) ==
    IF authMounted /\ authCalls[i].instance = authInstance THEN value ELSE old

\* auth.tsx:30-36: finishLoginAndEnter; leaving /auth unmounts the page
finishLoginAndEnter(data) ==
    /\ localStorage' = IF data.sessionToken # Null THEN data.sessionToken ELSE localStorage
    /\ toast' = "Welcome!"
    /\ location' = "/"
    /\ authMounted' = FALSE

\* auth.tsx:81-83, 132-134: finally { setIsSubmitting(false) }
Finally(i) ==
    /\ isSubmitting' = setState(i, FALSE, isSubmitting)
    /\ authCalls' = WithoutCall(i)
    /\ UNCHANGED <<authInstance, username>>

\* a sign-in that shows the username step whatever the server's user
googleTokenOf_AlwaysAsk(i, res, serverUsername) ==
    IF res.fate \in {"rejected", "notOk"}
    THEN /\ toast' = "Sign-in failed"
         /\ UNCHANGED <<location, localStorage, authMounted, idToken, needsUsername>>
    ELSE /\ idToken' = setState(i, authCalls[i].idToken, idToken)
         /\ needsUsername' = setState(i, TRUE, needsUsername)
         /\ toast' = "Almost there"
         /\ UNCHANGED <<location, localStorage, authMounted>>

\* auth.tsx:49-80: handleGoogleToken after the await of fetch
googleTokenOf(i, res, serverUsername) ==
    IF res.fate \in {"rejected", "notOk"}
    THEN /\ toast' = "Sign-in failed"
         /\ UNCHANGED <<location, localStorage, authMounted, idToken, needsUsername>>
    ELSE IF Len(serverUsername) > 0
    THEN /\ finishLoginAndEnter(dataOf(res))
         /\ UNCHANGED <<idToken, needsUsername>>
    ELSE /\ idToken' = setState(i, authCalls[i].idToken, idToken)
         /\ needsUsername' = setState(i, TRUE, needsUsername)
         /\ toast' = "Almost there"
         /\ UNCHANGED <<location, localStorage, authMounted>>

\* the answer to POST /auth/google arrives
GoogleResponse(i, res) ==
    /\ authCalls[i].path = "/auth/google"
    /\ googleTokenOf(i, res, serverUsernameOf(dataOf(res).username))
    /\ Finally(i)
    /\ UNCHANGED <<logouts, portfolio>>
    /\ UNCHANGED <<envVars, homeVars, calcVars, fmtVars, tradeVars>>

\* a handleEnter that sends whatever the field holds
handleEnterOf_NoCheck(trimmedUsername) ==
    /\ isSubmitting' = TRUE
    /\ authCalls' = Append(authCalls, AuthCall("/auth/complete", idToken, trimmedUsername))
    /\ UNCHANGED <<authMounted, authInstance, idToken, username, needsUsername>>
    /\ UNCHANGED browserVars

\* auth.tsx:88-120: handleEnter, up to the await of fetch
handleEnterOf(trimmedUsername) ==
    IF idToken = Null \/ idToken = ""
    THEN /\ toast' = "Sign in required"
         /\ UNCHANGED <<location, localStorage, authVars>>
    ELSE IF Len(trimmedUsername) < 3
    THEN /\ toast' = "Invalid Username"
         /\ UNCHANGED <<location, localStorage, authVars>>
    ELSE /\ isSubmitting' = TRUE
         /\ authCalls' = Append(authCalls, AuthCall("/auth/complete", idToken, trimmedUsername))
         /\ UNCHANGED <<authMounted, authInstance, idToken, username, needsUsername>>
         /\ UNCHANGED browserVars

\* auth.tsx:215-222: the button Enter Competition, shown with the username
\* step and disabled while submitting
HandleEnter ==
    /\ authMounted
    /\ needsUsername
    /\ ~isSubmitting
    /\ Len(authCalls) < MaxAuthCalls
    /\ handleEnterOf(trim(username))
    /\ UNCHANGED <<logouts, portfolio>>
    /\ UNCHANGED <<envVars, homeVars, calcVars, fmtVars, tradeVars>>

\* a handleEnter that lets the user in whatever the answer
CompleteResponse_AlwaysIn(i, res) ==
    /\ authCalls[i].path = "/auth/complete"
    /\ finishLoginAndEnter(dataOf(res))
    /\ Finally(i)
    /\ UNCHANGED <<idToken, needsUsername>>
    /\ UNCHANGED <<logouts, portfolio>>
    /\ UNCHANGED <<envVars, homeVars, calcVars, fmtVars, tradeVars>>

\* auth.tsx:121-134: handleEnter after the await of fetch
CompleteResponse(i, res) ==
    /\ authCalls[i].path = "/auth/complete"
    /\ IF res.fate \in {"rejected", "notOk"}
       THEN /\ toast' = "Could not finish sign up"
            /\ UNCHANGED <<location, localStorage, authMounted>>
       ELSE finishLoginAndEnter(dataOf(res))
    /\ Finally(i)
    /\ UNCHANGED <<idToken, needsUsername>>
    /\ UNCHANGED <<logouts, portfolio>>
    /\ UNCHANGED <<envVars, homeVars, calcVars, fmtVars, tradeVars>>

(***************************************************************************)
(* Calls of the two functions on their own.                                 *)
(***************************************************************************)
NotCalled == [called |-> FALSE, threw |-> FALSE, value |-> NaN]

Outcome(r) == [called |-> TRUE, threw |-> r.threw, value |-> r.value]

CallNextFriday ==
    /\ ~callResult.called
    /\ callResult' = Outcome(getNextFriday5pmPstUtcMs(callNow))
    /\ callLog' = callLog \cup {<<callNow, callResult', now>>}
    /\ UNCHANGED <<callNow, envVars, homeVars, fmtVars, pageVars>>

\* no text yet
NotFormatted == <<>>

\* formatCountdown(cdMs)
CallFormatCountdown ==
    /\ cdOut = NotFormatted
    /\ cdFrom = NaN
    /\ cdOut' = formatCountdown(cdMs)
    /\ UNCHANGED <<cdFrom, cdMs, envVars, homeVars, calcVars, pageVars>>

\* home.tsx:416-417 with `now` = cdFrom
CallCountdownOf ==
    /\ cdOut = NotFormatted
    /\ cdFrom # NaN
    /\ cdMs' = Sub(getNextFriday5pmPstUtcMs(cdFrom).value, cdFrom)
    /\ cdOut' = formatCountdown(cdMs')
    /\ UNCHANGED <<cdFrom, envVars, homeVars, calcVars, pageVars>>

(***************************************************************************)
(* Specifications.                                                          *)
(***************************************************************************)
InitEnv ==
    /\ epochDay \in EpochDays
    /\ hourCycle \in HourCycles
    /\ fault = NoFault

NoHome ==
    /\ mounted = FALSE
    /\ instance = 0
    /\ intervals = {}
    /\ now = 0
    /\ contestEndUtcMs = 0
    /\ contestCountdown = NotFormatted

NoCalc == callNow = 0 /\ callResult = NotCalled /\ callLog = {}

NoFmt == cdFrom = NaN /\ cdMs = 0 /\ cdOut = NotFormatted

\* the page is loaded and Home is about to be mounted
Init ==
    /\ InitEnv
    /\ NoHome
    /\ NoCalc
    /\ NoFmt
    /\ NoPage

\* what the clock can show at the next mount
MountTimes == IF instance = 0 THEN HomeInstants ELSE Later(now)

Next ==
    \/ \E t \in MountTimes : Mount(t)
    \/ \E id \in intervals, t \in Later(now) : Tick(id, t)
    \/ Unmount

Spec == Init /\ [][Next]_vars

\* getNextFriday5pmPstUtcMs called on each instant of the window
InitCalc ==
    /\ InitEnv
    /\ NoHome
    /\ callNow \in SampleInstants
    /\ callResult = NotCalled
    /\ callLog = {}
    /\ NoFmt
    /\ NoPage

NextCalc == CallNextFriday

SpecCalc == InitCalc /\ [][NextCalc]_vars

\* the same calls, from Thursday to Saturday, with a formatter that spoils one part
InitFault ==
    /\ epochDay \in EpochDays
    /\ hourCycle \in HourCycles
    /\ fault \in Faults
    /\ NoHome
    /\ callNow \in HomeInstants
    /\ callResult = NotCalled
    /\ callLog = {}
    /\ NoFmt
    /\ NoPage

SpecFault == InitFault /\ [][NextCalc]_vars

\* the Home page with its trades; the clock stands at Friday 00:00 UTC plus
\* an hour for each mount
InitTrade ==
    /\ epochDay = 20513
    /\ hourCycle = "h23"
    /\ fault = NoFault
    /\ NoHome
    /\ NoCalc
    /\ NoFmt
    /\ NoPage

NextTrade ==
    \/ Mount(5 * DayMs + instance * HourMs)
    \/ \E data \in MeResponses : MeFetched(data)
    \/ \E v \in SliderStops(maxStakeForSliderOf(meQuery)) : SlideStake(v)
    \/ \E b \in StakeButtons : StakeButton(b)
    \/ \E to \in {"/portfolio", "/auth"} : GoTo(to)
    \/ BackHome
    \/ \E side \in {"YES", "NO"} : HandleTrade(side)
    \/ \E i \in 1 .. Len(trades), res \in Responses : TradeResponse(i, res)

SpecTrade == InitTrade /\ [][NextTrade]_vars

\* the sign-in page, reached from Home and left for it
NextAuth ==
    \/ Mount(5 * DayMs + instance * HourMs)
    \/ \E to \in {"/portfolio", "/auth"} : GoTo(to)
    \/ MountAuth
    \/ \E token \in Credentials : GoogleSuccess(token)
    \/ GoogleError
    \/ \E text \in Typed : SetUsername(text)
    \/ HandleEnter
    \/ \E i \in 1 .. Len(authCalls), res \in Answers : GoogleResponse(i, res)
    \/ \E i \in 1 .. Len(authCalls), res \in Answers : CompleteResponse(i, res)

SpecAuth == InitTrade /\ [][NextAuth]_vars

\* a page load with or without a stored session
InitSession ==
    /\ epochDay = 20513
    /\ hourCycle = "h23"
    /\ fault = NoFault
    /\ NoHome
    /\ NoCalc
    /\ NoFmt
    /\ location = "/" /\ toast = NoToast /\ localStorage \in {Null, "s1"}
    /\ NoTrade
    /\ NoAuth
    /\ logouts = <<>> /\ portfolio = NoPortfolio

\* Home and the portfolio page of a user who can log out
NextAccount ==
    \/ Mount(5 * DayMs + instance * HourMs)
    \/ \E data \in MeResponses : MeFetched(data)
    \/ \E to \in {"/portfolio", "/auth"} : GoTo(to)
    \/ BackHome
    \/ HandleLogout
    \/ \E i \in 1 .. Len(logouts), res \in Responses, data \in MeResponses :
          LogoutResponse(i, res, data)
    \/ \E n \in 0 .. MaxTrades :
          \E list \in [1 .. n -> [market_id : {<<"a">>, <<"a", ":", "YES">>},
                                  side : {"YES", "NO"},
                                  amount : 1 .. 2]] :
             TradesFetched(list)

SpecAccount == InitSession /\ [][NextAccount]_vars

(***************************************************************************)
(* What the claims speak of: the wall clock of the zone.                    *)
(***************************************************************************)
\* the civil day (days since 1970-01-01) of the instant ms in the zone
LocalDayNo(ms) == epochDay + (ms + TzOffsetMinutes(ms) * MinMs) \div DayMs

\* ms is Friday 17:00:00.000 on the zone's wall clock
IsFriday5pm(ms) ==
    LET w == WallClock(ms)
    IN  /\ w.weekday = 5
        /\ w.hour = 17 /\ w.minute = 0 /\ w.second = 0 /\ w.millis = 0

\* the instants on the hour from a to b: the zone's offsets are whole hours,
\* so every Friday 17:00:00 between a and b is one of them
HoursBetween(a, b) == {h * HourMs : h \in (a \div HourMs) .. (b \div HourMs)}

\* ms lies before the Friday 17:00:00 of its civil week (Sunday to Saturday)
BeforeBoundary(ms) ==
    LET w == WallClock(ms) IN w.weekday < 5 \/ (w.weekday = 5 /\ w.hour < 17)

WeekNo(ms) == (LocalDayNo(ms) + 4) \div 7

\* how many civil days ahead the deadline of `ms` is to lie
DaysAhead(ms) ==
    LET w == WallClock(ms)
    IN  IF w.weekday = 5 THEN (IF w.hour < 17 THEN 0 ELSE 7)
        ELSE (5 - w.weekday + 7) % 7

Returned == callResult.called /\ ~callResult.threw /\ callResult.value # NaN

(***************************************************************************)
(* C1: for every instant now, getNextFriday5pmPstUtcMs(now) is the earliest *)
(* instant later than now that is Friday 17:00:00 on the Pacific wall       *)
(* clock: today when today is a Friday before 17:00:00, seven days later    *)
(* when today is a Friday at or after 17:00:00, and otherwise the coming    *)
(* Friday, 1 to 6 days ahead; no Friday 17:00 lies between now and it.      *)
(***************************************************************************)
C1_EarliestFriday5pm ==
    callResult.called =>
        /\ Returned
        /\ callResult.value > callNow
        /\ IsFriday5pm(callResult.value)
        /\ LocalDayNo(callResult.value) = LocalDayNo(callNow) + DaysAhead(callNow)
        /\ \A c \in HoursBetween(callNow, callResult.value) :
              ~(callNow < c /\ c < callResult.value /\ IsFriday5pm(c))

(***************************************************************************)
(* C2: for every instant t the deadline D(t) is strictly greater than t;    *)
(* the function never returns its own input, also when t is exactly a       *)
(* weekly deadline.                                                         *)
(***************************************************************************)
C2_StrictlyLater ==
    callResult.called => (Returned /\ callResult.value > callNow)

C2_AtDeadline == Returned /\ IsFriday5pm(callNow)

(***************************************************************************)
(* C3: if t is Friday 17:00:00 on the Pacific wall clock, or any later      *)
(* instant of that Friday, D(t) is 17:00:00 of the Friday exactly 7 civil   *)
(* days later: not t and not the same Friday.                               *)
(***************************************************************************)
FridayFrom5pm(ms) == WallClock(ms).weekday = 5 /\ WallClock(ms).hour >= 17

C3_BoundaryRolls ==
    (callResult.called /\ FridayFrom5pm(callNow)) =>
        /\ Returned
        /\ IsFriday5pm(callResult.value)
        /\ LocalDayNo(callResult.value) = LocalDayNo(callNow) + 7
        /\ callResult.value # callNow

C3_OneSecondPast ==
    /\ Returned
    /\ FridayFrom5pm(callNow)
    /\ WallClock(callNow).hour = 17
    /\ WallClock(callNow).minute = 0
    /\ WallClock(callNow).second = 1

(***************************************************************************)
(* C4: for every instant t, D(t) read on the Pacific wall clock is a        *)
(* Friday, hour 17, minute 0, second 0, and no milliseconds.                *)
(***************************************************************************)
C4_Friday5pmWallClock ==
    callResult.called => (Returned /\ IsFriday5pm(callResult.value))

C4_NewYearsDay ==
    /\ Returned
    /\ WallClock(callResult.value).year = 2027
    /\ WallClock(callResult.value).day = 1

(***************************************************************************)
(* C5: when the zone changes between standard and daylight time between t   *)
(* and the target Friday, D(t) is still 17:00:00 on the wall clock of the   *)
(* target date: the offset applied is the one in force on the target date,  *)
(* not the one in force at t.                                               *)
(***************************************************************************)
OffsetChanges == TzOffsetMinutes(callNow) # TzOffsetMinutes(callResult.value)

C5_OffsetOfTargetDate ==
    (Returned /\ OffsetChanges) =>
        LET w == WallClock(callResult.value)
        IN  /\ w.hour = 17 /\ w.minute = 0 /\ w.second = 0
            /\ callResult.value =
                  DateUTC(w.year, w.month - 1, w.day, 17, 0, 0)
                  - TzOffsetMinutes(callResult.value) * MinMs

C5_SpringForward ==
    /\ Returned
    /\ TzOffsetMinutes(callNow) = -480
    /\ TzOffsetMinutes(callResult.value) = -420

(***************************************************************************)
(* C6: for any two instants t1 and t2 of the same civil week that both lie  *)
(* before that week's Friday 17:00:00 Pacific, D(t1) = D(t2).               *)
(***************************************************************************)
\* the second instant of the pair: midnight and noon UTC of each day
PairInstants == {d * DayMs + h * HourMs : d \in 0 .. MaxDays - 1, h \in {0, 12}}

C6_SameWeekSameDeadline ==
    (callResult.called /\ BeforeBoundary(callNow)) =>
        \A t2 \in PairInstants :
            (WeekNo(t2) = WeekNo(callNow) /\ BeforeBoundary(t2)) =>
                getNextFriday5pmPstUtcMs(t2) = [threw |-> callResult.threw,
                                                value |-> callResult.value]

(***************************************************************************)
(* formatCountdown called on its own: on a range of differences, negative   *)
(* ones included, and on D(t) - t for the instants of the window            *)
(* (home.tsx:417).                                                          *)
(***************************************************************************)
\* days the differences given directly reach
MaxCountdownDays == 2

CountdownSeconds ==
    {d * 86400 + h * 3600 + m * 60 + sec :
        d \in 0 .. MaxCountdownDays, h \in {0, 1, 9, 10, 23}, m \in {0, 1, 59},
        sec \in {0, 1, 9, 10, 59}}

CountdownInputs ==
    {sec * 1000 + f : sec \in CountdownSeconds, f \in {0, 999}}
    \cup {-(sec * 1000 + f) : sec \in CountdownSeconds, f \in {0, 1}}

InitFmt ==
    /\ InitEnv
    /\ NoHome
    /\ NoCalc
    /\ NoPage
    /\ cdOut = NotFormatted
    /\ \/ /\ cdFrom = NaN
          /\ cdMs \in CountdownInputs
       \/ /\ cdFrom \in SampleInstants
          /\ cdMs = 0

NextFmt == CallFormatCountdown \/ CallCountdownOf

SpecFmt == InitFmt /\ [][NextFmt]_vars

Formatted == cdOut # NotFormatted

ZeroText == <<"0", "0", "h", " ", "0", "0", "m", " ", "0", "0", "s">>
OneSecondText == <<"0", "0", "h", " ", "0", "0", "m", " ", "0", "1", "s">>

(***************************************************************************)
(* C7: formatCountdown never renders a negative component, whatever the     *)
(* difference in milliseconds (a negative difference renders as zero), and  *)
(* for t = D(t) - 1 second the countdown is exactly "00h 00m 01s", with no  *)
(* day component.                                                           *)
(***************************************************************************)
C7_NeverNegative ==
    Formatted =>
        /\ \A i \in 1 .. Len(cdOut) : cdOut[i] # "-"
        /\ cdMs < 0 => cdOut = ZeroText
        /\ (cdFrom # NaN /\ cdFrom = getNextFriday5pmPstUtcMs(cdFrom).value - SecMs)
              => cdOut = OneSecondText

C7_OneSecondLeft ==
    /\ Formatted
    /\ cdFrom # NaN
    /\ cdFrom = getNextFriday5pmPstUtcMs(cdFrom).value - SecMs

(***************************************************************************)
(* C8: formatCountdown(ms) floors ms to whole seconds and splits the total  *)
(* into days, hours (0..23), minutes (0..59) and seconds (0..59) with       *)
(* days*86400 + hours*3600 + minutes*60 + seconds equal to the total;       *)
(* hours, minutes and seconds are zero-padded to two digits and the day     *)
(* count leads exactly when days > 0.                                       *)
(***************************************************************************)
\* the total of whole seconds: the floor of ms / 1000, and no less than 0
WholeSeconds(ms) ==
    IF ms < 0 THEN 0
    ELSE CHOOSE n \in {ms \div 1000 - 1, ms \div 1000, ms \div 1000 + 1} :
            n * 1000 <= ms /\ ms < (n + 1) * 1000

TwoDigits(n) == <<Digits[(n \div 10) + 1], Digits[(n % 10) + 1]>>

Rendering(d, h, m, sec) ==
    (IF d > 0 THEN ToDigits(d, 1) \o <<"d", " ">> ELSE <<>>)
    \o TwoDigits(h) \o <<"h", " ">> \o TwoDigits(m) \o <<"m", " ">>
    \o TwoDigits(sec) \o <<"s">>

C8_Decomposition ==
    (Formatted /\ cdMs # NaN) =>
        LET total == WholeSeconds(cdMs)
            d   == CHOOSE x \in 0 .. 16 : x * 86400 <= total /\ total < (x + 1) * 86400
            r1  == total - d * 86400
            h   == CHOOSE x \in 0 .. 23 : x * 3600 <= r1 /\ r1 < (x + 1) * 3600
            r2  == r1 - h * 3600
            m   == CHOOSE x \in 0 .. 59 : x * 60 <= r2 /\ r2 < (x + 1) * 60
            sec == r2 - m * 60
        IN  /\ sec \in 0 .. 59
            /\ d * 86400 + h * 3600 + m * 60 + sec = total
            /\ cdOut = Rendering(d, h, m, sec)

C8_DaysAndPadding ==
    /\ Formatted
    /\ cdMs = ((1 * 86400 + 1 * 3600 + 1 * 60 + 9) * 1000) + 999
    /\ cdOut = <<"1", "d", " ", "0", "1", "h", " ", "0", "1", "m", " ", "0", "9", "s">>

(***************************************************************************)
(* C9: the 1-second countdown timer of Home is released on every teardown   *)
(* of the view: once the view is unmounted no tick updates `now`, and at no *)
(* time is more than one countdown interval active.                         *)
(***************************************************************************)
C9_TimerReleased ==
    /\ [](~mounted => intervals = {})
    /\ [](Cardinality(intervals) <= 1)
    /\ [][~mounted => (mounted' \/ now' = now)]_vars

C9_TornDownTwice == ~mounted /\ instance = 2 /\ intervals = {}

(***************************************************************************)
(* C10: when the extraction of the zone's fields yields a missing or        *)
(* unparseable field (an unknown weekday, a non-numeric year, month, day,   *)
(* hour or minute), getNextFriday5pmPstUtcMs fails with an error: it never  *)
(* substitutes a default and never returns a deadline computed from one.    *)
(***************************************************************************)
C10_MalformedFieldThrows ==
    (callResult.called /\ fault # NoFault) => callResult.threw

(***************************************************************************)
(* C11: given an input instant with an invalid or non-finite                *)
(* representation, getNextFriday5pmPstUtcMs rejects the call (it raises):   *)
(* it neither clamps the input nor returns a deadline.                      *)
(***************************************************************************)
\* getNextFriday5pmPstUtcMs called on an invalid date as well
InitInvalid ==
    /\ InitEnv
    /\ NoHome
    /\ callNow \in HomeInstants \cup {NaN}
    /\ callResult = NotCalled
    /\ callLog = {}
    /\ NoFmt
    /\ NoPage

SpecInvalid == InitInvalid /\ [][NextCalc]_vars

C11_InvalidDateThrows ==
    (callResult.called /\ callNow = NaN) =>
        (callResult.threw /\ callResult.value = NaN)

C11_InvalidDateCalled == callResult.called /\ callNow = NaN /\ callResult.threw

(***************************************************************************)
(* C12: getNextFriday5pmPstUtcMs is a pure function of its `now` argument:  *)
(* two calls with the same instant return the same deadline whatever the    *)
(* ambient clock or the calls made before, and a call changes no state of   *)
(* the component (now, stake, storage) and does not change its argument.    *)
(***************************************************************************)
\* calls a run makes
MaxCalls == 2

\* Friday 23:00, Saturday 00:00 and 01:00 UTC: the hours around Friday 17:00
\* in the zone, in winter and in summer
PureInstants == {5 * DayMs + h * HourMs : h \in 23 .. 25}

\* getNextFriday5pmPstUtcMs(t), called from anywhere at any time; callNow is
\* the Date object after the call
CallAgain(t) ==
    /\ Cardinality(callLog) < MaxCalls
    /\ callNow' = t
    /\ callResult' = Outcome(getNextFriday5pmPstUtcMs(t))
    /\ callLog' = callLog \cup {<<t, callResult', now>>}
    /\ UNCHANGED <<envVars, homeVars, fmtVars, pageVars>>

NextPure ==
    \/ \E t \in (IF instance = 0 THEN PureInstants ELSE Later(now) \cap PureInstants) :
           Mount(t)
    \/ \E id \in intervals, t \in Later(now) \cap PureInstants : Tick(id, t)
    \/ Unmount
    \/ \E t \in PureInstants : CallAgain(t)

\* the Home page running, and the calculator called beside it
SpecPure == Init /\ [][NextPure]_vars

NearSevenDays(text) == Len(text) > 2 /\ text[1] \in {"6", "7"} /\ text[2] = "d"

C13_FreshDeadline ==
    /\ [](mounted =>
            /\ contestEndUtcMs = getNextFriday5pmPstUtcMs(now).value
            /\ contestCountdown = formatCountdown(Sub(contestEndUtcMs, now)))
    /\ [][(mounted /\ mounted' /\ instance' = instance /\ now' >= contestEndUtcMs) =>
            /\ IsFriday5pm(contestEndUtcMs')
            /\ LocalDayNo(contestEndUtcMs') = LocalDayNo(contestEndUtcMs) + 7
            /\ contestEndUtcMs' > now'
            /\ NearSevenDays(contestCountdown')]_vars

\* the page shows a Saturday 00:00 UTC that is at or past Friday 17:00 in the
\* zone, an hour or less after it showed the hour before
C13_TickedPastDeadline ==
    /\ mounted
    /\ now >= 6 * DayMs
    /\ now - 6 * DayMs <= HourMs
    /\ ~BeforeBoundary(now)
    /\ NearSevenDays(contestCountdown)

(***************************************************************************)
(* C14: every amount sent by handleTrade in a POST /trades request is a     *)
(* whole number with 1 <= amount <= tokens, the balance the client knows at *)
(* that moment; when that balance is below 1 no request is sent and a       *)
(* "Not enough tokens" toast is shown instead.                              *)
(***************************************************************************)
\* this step sends a request
Sends == Len(trades') > Len(trades)

\* the amount of the request this step sends
SentAmount == trades'[Len(trades')].amount

\* this step is a click on a trade button
Clicks == \E side \in {"YES", "NO"} : HandleTrade(side)

C14_AmountWithinBalance ==
    /\ [][Sends =>
            /\ SentAmount # NaN
            /\ SentAmount >= 1
            /\ tokensOf(meQuery) # NaN
            /\ SentAmount * Unit <= tokensOf(meQuery)]_vars
    /\ [][(Clicks /\ signedInOf(meQuery) /\ tokensOf(meQuery) # NaN
                  /\ tokensOf(meQuery) < Unit) =>
            /\ ~Sends
            /\ toast' = "Not enough tokens"]_vars

(***************************************************************************)
(* C15: a signed-out user can never submit a trade: handleTrade called      *)
(* while signedIn is false navigates to /auth and sends no POST /trades     *)
(* request.                                                                 *)
(***************************************************************************)
C15_SignedOutNeverTrades ==
    [][~signedInOf(meQuery) =>
          /\ ~Sends
          /\ Clicks => (location' = "/auth" /\ ~mounted')]_vars

\* a signed-out click has led to /auth, and nothing was sent
C15_SentToAuth ==
    /\ lastTrade = "auth"
    /\ location = "/auth"
    /\ ~signedInOf(meQuery)
    /\ trades = <<>>

(***************************************************************************)
(* C16: when a signed-in user clicks a YES/NO trade button, the amount sent *)
(* in POST /trades equals the stake the slider and the trade buttons        *)
(* display at that moment, clampInt(stake, 1, maxStakeForSlider), for every *)
(* balance and every stake reachable through the slider and the 10 / 50 /   *)
(* Max buttons.                                                             *)
(***************************************************************************)
C16_SendsWhatIsShown ==
    [][(Clicks /\ Sends) => SentAmount = shownStake(stake, meQuery)]_vars

(***************************************************************************)
(* C17: while a POST /trades request is pending every YES/NO trade button   *)
(* is disabled, so at most one trade request is in flight at any time.      *)
(***************************************************************************)
C17_OneTradeInFlight ==
    /\ (mounted /\ trades # <<>>) => tradeDisabled
    /\ Len(trades) <= 1

(***************************************************************************)
(* C18: after a successful POST /trades the cached queries /me, /markets,   *)
(* /stats and /leaderboard are all invalidated, in that order, before the   *)
(* "Trade placed" toast is shown; when the request fails none of them is    *)
(* invalidated and a "Trade failed" toast is shown instead.  A request      *)
(* succeeds when the mutation function returns: a 2xx answer whose body is  *)
(* JSON.                                                                    *)
(***************************************************************************)
\* this step is the end of a request, with the answer res
Ends(res) == \E i \in 1 .. Len(trades) : TradeResponse(i, res)

C18_InvalidatedThenToast ==
    /\ [][Ends("ok") =>
            /\ settled' = <<"/me", "/markets", "/stats", "/leaderboard", "Trade placed">>
            /\ toast' = "Trade placed"]_vars
    /\ [][(\E res \in Responses \ {"ok"} : Ends(res)) =>
            /\ settled' = <<"Trade failed">>
            /\ toast' = "Trade failed"]_vars
    /\ [](settled \in {<<>>, <<"Trade failed">>,
                       <<"/me", "/markets", "/stats", "/leaderboard", "Trade placed">>})

\* a request has succeeded and its trade was announced
C18_TradePlaced ==
    /\ settled = <<"/me", "/markets", "/stats", "/leaderboard", "Trade placed">>
    /\ toast = "Trade placed"
    /\ lastTrade = "sent"

\* the answer to a sign-in of the page on screen arrives with a parsed or
\* unparsed 2xx body
GoogleAccepted(i, res) ==
    /\ GoogleResponse(i, res)
    /\ res.fate \in {"ok", "badBody"}
    /\ authMounted
    /\ authCalls[i].instance = authInstance

\* C19: after a successful answer to POST /auth/google, a server user with
\* a non-empty trimmed username makes the page complete the login and go to
\* "/" without that answer showing the username step; otherwise the page
\* stores the Google idToken and shows the username step.  In every state
\* needsUsername implies a non-null idToken, and within a page instance
\* needsUsername never returns to false.
C19_TwoStepSignIn ==
    /\ [](needsUsername => idToken # Null)
    /\ [][(needsUsername /\ authInstance' = authInstance) => needsUsername']_vars
    /\ [][\A i \in 1 .. Len(authCalls), res \in Answers :
            GoogleAccepted(i, res) =>
                IF Len(serverUsernameOf(res.username)) > 0 /\ res.fate = "ok"
                THEN /\ location' = "/"
                     /\ toast' = "Welcome!"
                     /\ needsUsername' = needsUsername
                     /\ idToken' = idToken
                ELSE /\ idToken' = authCalls[i].idToken
                     /\ needsUsername'
                     /\ location' = "/auth"]_vars

\* C19 witness: the first page instance got both answers: one without a
\* username, which showed the username step, and one with a username, which
\* completed the login (no username was entered, so nothing else did)
C19_BothAnswers ==
    /\ authInstance = 1
    /\ ~authMounted
    /\ location = "/"
    /\ toast = "Welcome!"
    /\ needsUsername
    /\ idToken \in {"g1", "g2"}
    /\ username = <<>>

\* a step that adds a POST /auth/complete to the requests in flight
SendsComplete ==
    /\ Len(authCalls') = Len(authCalls) + 1
    /\ authCalls'[Len(authCalls')].path = "/auth/complete"

\* C20: handleEnter sends POST /auth/complete only when idToken is non-null
\* and the trimmed username has at least 3 characters; otherwise it shows
\* the toast "Sign in required" or "Invalid Username" and leaves
\* isSubmitting, local storage and the route unchanged.
C20_EnterChecked ==
    /\ [][SendsComplete => (idToken # Null /\ Len(trim(username)) >= 3)]_vars
    /\ [][HandleEnter =>
            IF idToken # Null /\ Len(trim(username)) >= 3
            THEN /\ SendsComplete
                 /\ authCalls'[Len(authCalls')].username = trim(username)
                 /\ authCalls'[Len(authCalls')].idToken = idToken
            ELSE /\ toast' = IF idToken = Null THEN "Sign in required"
                                               ELSE "Invalid Username"
                 /\ UNCHANGED <<isSubmitting, localStorage, location, authCalls>>]_vars

\* C20 witness: Enter was clicked on a username of four characters, two of
\* them white space, and was refused
C20_ShortUsernameRefused ==
    /\ authMounted
    /\ needsUsername
    /\ username = <<" ", "a", "b", " ">>
    /\ toast = "Invalid Username"
    /\ ~isSubmitting
    /\ authCalls = <<>>

\* the page on screen has a request in flight
Outstanding ==
    /\ authMounted
    /\ \E i \in 1 .. Len(authCalls) : authCalls[i].instance = authInstance

\* C21: on the sign-in page isSubmitting is true in every state in which a
\* request to /auth/google or /auth/complete of the page is in flight,
\* whatever the order of Google callbacks and Enter clicks, and so no
\* /auth/complete is sent while another request of the page is outstanding.
C21_SubmittingWhileInFlight ==
    /\ [](Outstanding => isSubmitting)
    /\ [][SendsComplete => ~Outstanding]_vars

\* a request of the page is answered with a status that is not 2xx, or not
\* answered at all
AuthFailed ==
    \E i \in 1 .. Len(authCalls), res \in Answers :
        /\ res.fate \in {"rejected", "notOk"}
        /\ GoogleResponse(i, res) \/ CompleteResponse(i, res)

\* a request of the page is answered with a 2xx status
AuthSucceeded ==
    \E i \in 1 .. Len(authCalls), res \in Answers :
        /\ res.fate \in {"ok", "badBody"}
        /\ GoogleResponse(i, res) \/ CompleteResponse(i, res)

\* C22: the session token is written to local storage and the route changes
\* to "/" only after an answer with an OK status; after a non-OK answer or
\* a network error neither local storage nor the route changes, the page
\* stays on its step, and an error toast is shown.
C22_SessionOnlyAfterOk ==
    /\ [][(localStorage' # localStorage \/ (location = "/auth" /\ location' = "/"))
            => AuthSucceeded]_vars
    /\ [][AuthFailed =>
            /\ UNCHANGED <<localStorage, location, authMounted, needsUsername, idToken>>
            /\ toast' \in {"Sign-in failed", "Could not finish sign up"}]_vars

\* C22 witness: the completion of a sign-up failed after an earlier login
\* stored a session token: the second page instance is still on the
\* username step, the route is /auth and the stored token is untouched
C22_CompleteFailed ==
    /\ authMounted
    /\ authInstance = 2
    /\ location = "/auth"
    /\ needsUsername
    /\ localStorage = "s1"
    /\ toast = "Could not finish sign up"

\* a POST /auth/logout ends
LogoutEnds == Len(logouts') < Len(logouts)

\* the Logout button of the Home shown is disabled: its mutation is pending
logoutPending == mounted /\ \E k \in 1 .. Len(logouts) : logouts[k] = instance

RECURSIVE AmountOn(_, _, _)
AmountOn(list, market, side) ==
    IF list = <<>>
    THEN 0
    ELSE (IF Head(list).market_id = market /\ Head(list).side = side
          THEN Head(list).amount ELSE 0)
         + AmountOn(Tail(list), market, side)

RECURSIVE Total(_)
Total(list) == IF list = <<>> THEN 0 ELSE Head(list).amount + Total(Tail(list))

\* C24: positions holds exactly one entry for each pair of market and side
\* that occurs in the trades, the amount of an entry is the sum of the
\* amounts of the trades of its pair, the amounts of the positions add up
\* to activeStake, which is the sum of the amounts of all trades, and the
\* positions are in the order of non-increasing amount.
C24_PositionsAggregate ==
    LET list == portfolio.trades
        pos == portfolio.positions
    IN  /\ \A k \in 1 .. Len(list) :
              \E i \in 1 .. Len(pos) :
                 pos[i].marketTitle = list[k].market_id /\ pos[i].side = list[k].side
        /\ \A i \in 1 .. Len(pos) :
              /\ \E k \in 1 .. Len(list) :
                    pos[i].marketTitle = list[k].market_id /\ pos[i].side = list[k].side
              /\ \A j \in 1 .. Len(pos) :
                    (pos[j].marketTitle = pos[i].marketTitle /\ pos[j].side = pos[i].side)
                        => j = i
              /\ pos[i].amount = AmountOn(list, pos[i].marketTitle, pos[i].side)
        /\ portfolio.activeStake = Total(list)
        /\ Total(pos) = portfolio.activeStake
        /\ \A i \in 1 .. Len(pos) - 1 : pos[i].amount >= pos[i + 1].amount

\* C24 witness: three trades, two of them on one side of a market whose id
\* ends like a key; their position comes first although its first trade
\* came second
C24_MergedAndReordered ==
    /\ Len(portfolio.trades) = 3
    /\ Len(portfolio.positions) = 2
    /\ portfolio.trades[1].market_id = <<"a">>
    /\ portfolio.trades[1].amount = 2
    /\ portfolio.positions[1].marketTitle = <<"a", ":", "YES">>
    /\ portfolio.positions[1].amount = 3
    /\ portfolio.positions[2].marketTitle = <<"a">>
    /\ portfolio.positions[2].side = "YES"

====
